---- MODULE Spec2Model ----
\* Verification development for stock-pulse: the predict-then-verify loop of
\* the Supabase edge functions (verify-predictions, batch-verify,
\* predict-sentiment, auto-update, fix-timestamps) and their price oracle.
EXTENDS Integers, Sequences, FiniteSets, TLC

VARIABLES store, now, run, orc

vars == <<store, now, run, orc>>

----------------------------------------------------------------------------
\* Nullable columns and JavaScript values.

\* SQL NULL / JS null in a nullable column; Some(v) is a present value.
None == <<>>
Some(v) == <<v>>
IsNull(x) == x = None
Val(x) == x[1]

\* A JavaScript number as the providers' JSON can deliver it: a finite
\* number, NaN (parseFloat of a missing or non-numeric field), Infinity
\* (parseFloat("Infinity"), JSON 1e999) or undefined/null (field absent).
Num(v) == [t |-> "num", v |-> v]
NaN == [t |-> "nan", v |-> 0]
Infinity == [t |-> "inf", v |-> 0]
Undefined == [t |-> "undef", v |-> 0]

\* isNaN(x): Number(undefined) is NaN, Number(null) is 0.
IsNaN(x) == x.t \in {"nan", "undef"}
\* isFinite(x)
IsFinite(x) == x.t = "num"
\* JS truthiness of a number-or-undefined value.
Truthy(x) == (x.t = "num" /\ x.v # 0) \/ x.t = "inf"
\* x > 0 in JS (false for NaN and undefined).
GtZero(x) == (x.t = "num" /\ x.v > 0) \/ x.t = "inf"
\* a || b
Or(a, b) == IF Truthy(a) THEN a ELSE b

\* The spec's notion of a usable quote price (spec 4.1): finite and positive.
Usable(x) == x.t = "num" /\ x.v > 0

----------------------------------------------------------------------------
\* Bounds of the environment.

\* Finite prices a provider can report (currency units x 10).
ProviderPrices == {0, -5, 1000, 1030}
JSPrices == {Num(v) : v \in ProviderPrices} \cup {NaN, Infinity}

\* The price functions of the repository.
PriceFns == {"verify-predictions", "predict-sentiment", "auto-update",
             "batch-verify", "fetch-stock-price", "live-data-fetcher"}

\* Responses of the premium provider (Alpha Vantage GLOBAL_QUOTE): the
\* request throws, or JSON arrives with or without a 'Global Quote' object
\* whose '05. price' and '10. change percent' parse to price and change
\* (Undefined: the field is absent; NaN: present but not numeric).
AVResponses ==
    {[kind |-> "throw", ok |-> FALSE, quote |-> FALSE, price |-> NaN, change |-> NaN],
     [kind |-> "json", ok |-> TRUE, quote |-> FALSE, price |-> NaN, change |-> NaN],
     [kind |-> "json", ok |-> FALSE, quote |-> TRUE, price |-> Num(1030), change |-> Num(300)]}
    \cup {[kind |-> "json", ok |-> TRUE, quote |-> TRUE, price |-> p, change |-> c] :
            p \in JSPrices \cup {Undefined}, c \in {Num(300), NaN, Undefined}}

\* Responses of the chart provider (Yahoo v8 chart): the request throws or
\* times out, the status is not ok, or JSON arrives with or without
\* result[0].meta, a regularMarketPrice, a previous close and a close series.
ChartResponses ==
    {[kind |-> "throw", ok |-> FALSE, meta |-> FALSE, regularMarketPrice |-> Undefined, previousClose |-> Undefined, close |-> <<>>],
     [kind |-> "json", ok |-> FALSE, meta |-> TRUE, regularMarketPrice |-> Num(1000), previousClose |-> Undefined, close |-> <<Num(1000), Num(1000)>>],
     [kind |-> "json", ok |-> TRUE, meta |-> FALSE, regularMarketPrice |-> Undefined, previousClose |-> Undefined, close |-> <<>>],
     [kind |-> "json", ok |-> TRUE, meta |-> TRUE, regularMarketPrice |-> Num(1000), previousClose |-> Undefined, close |-> <<>>],
     [kind |-> "json", ok |-> TRUE, meta |-> TRUE, regularMarketPrice |-> Num(1030), previousClose |-> Num(1000), close |-> <<Num(1000), Num(1030)>>],
     [kind |-> "json", ok |-> TRUE, meta |-> TRUE, regularMarketPrice |-> Undefined, previousClose |-> Num(1000), close |-> <<Num(1000), Undefined>>],
     [kind |-> "json", ok |-> TRUE, meta |-> TRUE, regularMarketPrice |-> Num(0), previousClose |-> Num(1000), close |-> <<Num(0), Num(0)>>],
     [kind |-> "json", ok |-> TRUE, meta |-> TRUE, regularMarketPrice |-> Num(-5), previousClose |-> Undefined, close |-> <<Num(1000), Num(-5)>>],
     [kind |-> "json", ok |-> TRUE, meta |-> TRUE, regularMarketPrice |-> Infinity, previousClose |-> Undefined, close |-> <<Num(1000), Infinity>>]}

----------------------------------------------------------------------------
\* The price oracle: one attempt at each provider, then the fallback chain.

NoQuote == [price |-> Undefined, change |-> Undefined, provider |-> "none"]
Quote(p, c, prov) == [price |-> p, change |-> c, provider |-> prov]

ChartName(i) == <<"chart1", "chart2", "chart3">>[i]

\* sources.length of each function's chart loop.
NumSources(fn) ==
    CASE fn \in {"verify-predictions", "auto-update"} -> 3
      [] fn = "predict-sentiment" -> 2
      [] OTHER -> 1

\* The check each function applies to the premium provider's answer.
PremiumAccepts(fn, price, change) ==
    CASE fn \in {"verify-predictions", "auto-update"} -> ~IsNaN(price) /\ ~IsNaN(change)
      [] fn = "predict-sentiment" -> ~IsNaN(price)
      [] fn = "fetch-stock-price" -> change.t # "undef" /\ Truthy(price)
      [] fn = "live-data-fetcher" -> price.t # "undef" /\ change.t # "undef"
      [] OTHER -> FALSE

\* One request to the premium provider; NoQuote when nothing is accepted.
PremiumAttempt(fn, av) ==
    IF av.kind = "throw" THEN NoQuote
    ELSE IF fn = "live-data-fetcher" /\ ~av.ok THEN NoQuote
    ELSE IF ~av.quote THEN NoQuote
    ELSE IF PremiumAccepts(fn, av.price, av.change)
         THEN Quote(av.price,
                    IF fn = "predict-sentiment" /\ IsNaN(av.change) THEN Num(0) ELSE av.change,
                    "premium")
    ELSE NoQuote

\* for (i = prices.length - 1; i >= 0; i--) if (prices[i]) ... : the last
\* truthy entry of the close series, Undefined if there is none.
RECURSIVE LastValid(_, _)
LastValid(prices, i) ==
    IF i = 0 THEN Undefined
    ELSE IF Truthy(prices[i]) THEN prices[i]
    ELSE LastValid(prices, i - 1)

LastOf(prices) == IF Len(prices) = 0 THEN Undefined ELSE prices[Len(prices)]

\* currentPrice as each function extracts it from a chart response.
ChartPrice(fn, y) ==
    CASE fn \in {"verify-predictions", "auto-update"} ->
            IF ~Truthy(y.regularMarketPrice) /\ Len(y.close) > 0
            THEN LET l == LastValid(y.close, Len(y.close))
                 IN IF Truthy(l) THEN l ELSE y.regularMarketPrice
            ELSE y.regularMarketPrice
      [] fn = "live-data-fetcher" -> y.regularMarketPrice
      [] OTHER -> Or(y.regularMarketPrice, LastOf(y.close))

\* ((currentPrice - previousClose) / previousClose) * 100, in hundredths of
\* a percent; NaN when an operand is not a finite number or the divisor is 0.
PercentOf(cp, prev) ==
    IF cp.t = "num" /\ prev.t = "num" /\ prev.v # 0
    THEN Num(((cp.v - prev.v) * 10000) \div prev.v)
    ELSE IF cp.t = "inf" /\ prev.t = "num" /\ prev.v > 0 THEN Infinity
    ELSE NaN

\* change as each function derives it from a chart response.
ChartChange(fn, y) ==
    LET cp == ChartPrice(fn, y) IN
    CASE fn \in {"verify-predictions", "auto-update"} ->
            IF Truthy(y.previousClose) /\ Truthy(cp) THEN PercentOf(cp, y.previousClose) ELSE Num(0)
      [] fn \in {"predict-sentiment", "batch-verify"} ->
            LET prev == Or(y.previousClose,
                           IF Len(y.close) > 1 THEN y.close[Len(y.close) - 1] ELSE Undefined)
            IN IF Truthy(prev) THEN PercentOf(cp, prev) ELSE Num(0)
      [] fn = "live-data-fetcher" ->
            IF Truthy(y.previousClose) THEN PercentOf(cp, y.previousClose) ELSE Num(0)
      [] OTHER -> PercentOf(cp, y.previousClose)

\* The check each function applies to a chart response.
ChartAccepts(fn, y) ==
    LET cp == ChartPrice(fn, y) IN
    CASE fn \in {"verify-predictions", "auto-update"} ->
            y.ok /\ y.meta /\ (Len(y.close) > 0 \/ Truthy(y.regularMarketPrice))
            /\ GtZero(cp) /\ ~IsNaN(cp)
      [] fn = "predict-sentiment" ->
            y.ok /\ y.meta /\ Len(y.close) > 1 /\ GtZero(cp) /\ ~IsNaN(cp)
      [] fn = "batch-verify" ->
            y.ok /\ y.meta /\ Len(y.close) > 1 /\ GtZero(cp) /\ ~IsNaN(cp) /\ IsFinite(cp)
      [] fn = "fetch-stock-price" -> y.meta
      [] fn = "live-data-fetcher" -> y.ok /\ Truthy(cp) /\ GtZero(cp)
      [] OTHER -> FALSE

\* One request to chart endpoint i; NoQuote when nothing is accepted.
ChartAttempt(fn, y, i) ==
    IF y.kind = "throw" THEN NoQuote
    ELSE IF ChartAccepts(fn, y) THEN Quote(ChartPrice(fn, y), ChartChange(fn, y), ChartName(i))
    ELSE NoQuote

\* for (const url of sources) { ... return on the first accepted quote }
RECURSIVE ChartLoop(_, _, _, _)
ChartLoop(fn, ys, i, tried) ==
    IF i > NumSources(fn) THEN [quote |-> NoQuote, tried |-> tried]
    ELSE LET q == ChartAttempt(fn, ys[i], i)
             t == Append(tried, ChartName(i))
         IN IF q # NoQuote THEN [quote |-> q, tried |-> t]
            ELSE ChartLoop(fn, ys, i + 1, t)

\* The chart loop first, the premium provider (if configured) after it.
ChartFirst(fn, key, av, ys) ==
    LET c == ChartLoop(fn, ys, 1, <<>>)
    IN IF c.quote # NoQuote \/ ~key THEN c
       ELSE [quote |-> PremiumAttempt(fn, av), tried |-> Append(c.tried, "premium")]

\* Premium provider first (if the key is configured), then the chart loop.
PremiumFirst(fn, key, av, ys) ==
    LET p == IF key THEN PremiumAttempt(fn, av) ELSE NoQuote
        t == IF key THEN <<"premium">> ELSE <<>>
    IN IF p # NoQuote THEN [quote |-> p, tried |-> t]
       ELSE ChartLoop(fn, ys, 1, t)

\* live-data-fetcher: chart provider first, premium only if results is empty.
fetchLiveStockPrice(key, av, ys) ==
    LET c == ChartLoop("live-data-fetcher", ys, 1, <<>>)
    IN IF c.quote # NoQuote \/ ~key THEN c
       ELSE [quote |-> PremiumAttempt("live-data-fetcher", av),
             tried |-> Append(c.tried, "premium")]

\* The price function of each edge function: the quote it returns (NoQuote
\* for null / 404) and the providers it asked, in order.
fetchLivePrice(fn, key, av, ys) ==
    CASE fn = "live-data-fetcher" -> fetchLiveStockPrice(key, av, ys)
      [] fn = "batch-verify" -> ChartLoop(fn, ys, 1, <<>>)
      [] OTHER -> PremiumFirst(fn, key, av, ys)

\* The oracle when no call is being examined.
OracleIdle ==
    [fn |-> "none", key |-> FALSE, av |-> CHOOSE a \in AVResponses : a.kind = "throw",
     ys |-> <<>>, pc |-> "idle", quote |-> NoQuote, tried |-> <<>>]

\* The chart responses a function can see: one per endpoint of its list.
ChartVectors(fn) == [1..NumSources(fn) -> ChartResponses]

----------------------------------------------------------------------------
\* The prediction_history table and the verification arithmetic.

\* Bounds of the store model.
MaxRecords == 2
\* Hours on the clock; rows left by an earlier deployment are LegacyAge
\* hours old at hour 0, so that ages on both sides of every staleness
\* threshold (2h, 4h, 12h) occur.
MaxTime == 5
TickSteps == {5}
LegacyAge == 10
Procs == {1, 2}
\* The processes that run the inserting functions (predict-sentiment and
\* auto-update); every process runs the verification functions.  Processes
\* are interchangeable, so one inserting process meets every interleaving of
\* an inserting invocation with a verifying one.
Inserters == {1}
Symbols == {"AAPL"}
\* Prices the table model lets a quote carry.
QuotePrices == {1000, 1030}

VerifySites == {"verify-predictions", "batch-verify", "predict-sentiment", "auto-update"}

\* Math.abs
Abs(x) == IF x < 0 THEN -x ELSE x

\* The five verification columns of a row.
VerificationFields(r) ==
    <<r.actual_outcome, r.price_at_verification, r.price_change_percent,
      r.was_accurate, r.verified_at>>

\* A selection without the .is('was_accurate', null) filter.
IsAnyRow(r) == TRUE

\* .is('was_accurate', null): how every call site recognises a Pending row.
IsPending(r) == IsNull(r.was_accurate)

\* A row whose verification columns are all set.
IsVerified(r) == \A f \in 1..5 : ~IsNull(VerificationFields(r)[f])

\* !priceAtPrediction || priceAtPrediction <= 0
InvalidPrice(pap) == IsNull(pap) \/ Val(pap) <= 0

\* force-verify-script: if (!priceAtPrediction) continue
ScriptInvalidPrice(pap) == IsNull(pap) \/ Val(pap) = 0

\* ((currentPrice - priceAtPrediction) / priceAtPrediction) * 100, kept in
\* hundredths of a percent; comparisons with a threshold are made exactly,
\* by cross-multiplication, and the stored value is the truncated quotient.
PriceChange(cur, pap) ==
    LET n == (cur - pap) * 10000
        q == Abs(n) \div Abs(pap)
    IN IF (n >= 0) = (pap > 0) THEN q ELSE -q
ChangeGT(cur, pap, bp) ==
    IF pap > 0 THEN (cur - pap) * 10000 > bp * pap ELSE (cur - pap) * 10000 < bp * pap
ChangeLT(cur, pap, bp) ==
    IF pap > 0 THEN (cur - pap) * 10000 < bp * pap ELSE (cur - pap) * 10000 > bp * pap

\* The neutral band T of each call site (hundredths of a percent).
Band(site) ==
    CASE site = "verify-predictions" -> 200
      [] site = "force-verify-script" -> 100
      [] OTHER -> 150
\* The directional leniency of each call site.
Leniency(site) ==
    IF site \in {"verify-predictions", "force-verify-script", "debug-verification"}
    THEN 50 ELSE 80
\* The neutral tolerance of each call site.
NeutralTolerance(site) ==
    CASE site = "verify-predictions" -> 300
      [] site = "force-verify-script" -> 150
      [] OTHER -> 200

\* The classification with the band's edges counted as moves (>= and <=).
ActualOutcomeInclusive(site, cur, pap) ==
    IF ~ChangeLT(cur, pap, Band(site)) THEN "bullish"
    ELSE IF ~ChangeGT(cur, pap, -Band(site)) THEN "bearish"
    ELSE "neutral"

\* if (priceChange > T) bullish; else if (priceChange < -T) bearish; else neutral
ActualOutcome(site, cur, pap) ==
    IF ChangeGT(cur, pap, Band(site)) THEN "bullish"
    ELSE IF ChangeLT(cur, pap, -Band(site)) THEN "bearish"
    ELSE "neutral"

\* The cascade with a leniency that looks at the size of the move only.
WasAccurateAnyDirection(site, prediction, cur, pap) ==
    \/ prediction = ActualOutcome(site, cur, pap)
    \/ /\ prediction = "neutral"
       /\ ChangeLT(cur, pap, NeutralTolerance(site))
       /\ ChangeGT(cur, pap, -NeutralTolerance(site))
    \/ /\ prediction \in {"bullish", "bearish"}
       /\ ChangeGT(cur, pap, Leniency(site)) \/ ChangeLT(cur, pap, -Leniency(site))

\* The wasAccurate cascade (debug-verification.js has no bearish leniency).
WasAccurate(site, prediction, cur, pap) ==
    \/ prediction = ActualOutcome(site, cur, pap)
    \/ /\ prediction = "neutral"
       /\ ChangeLT(cur, pap, NeutralTolerance(site))
       /\ ChangeGT(cur, pap, -NeutralTolerance(site))
    \/ prediction = "bullish" /\ ChangeGT(cur, pap, Leniency(site))
    \/ /\ prediction = "bearish"
       /\ site # "debug-verification"
       /\ ChangeLT(cur, pap, -Leniency(site))

\* The update object written to a row: the five verification columns.
Verification(site, r, cur, t) ==
    [actual_outcome |-> Some(ActualOutcome(site, cur, Val(r.price_at_prediction))),
     price_at_verification |-> Some(cur),
     price_change_percent |-> Some(PriceChange(cur, Val(r.price_at_prediction))),
     was_accurate |-> Some(WasAccurate(site, r.prediction, cur, Val(r.price_at_prediction))),
     verified_at |-> Some(t)]

\* The price Infinity as a caller of fetchLivePrice sees it: above every
\* finite price, so that every comparison of the price change comes out as
\* it does for Infinity.
InfinitePrice == 100000

\* JSON.stringify of the update object: a number that is not finite is sent
\* as null.
JsonBody(v) ==
    IF v.price_at_verification = Some(InfinitePrice)
    THEN [v EXCEPT !.price_at_verification = None, !.price_change_percent = None]
    ELSE v

\* An update object that carries the prediction along with the verification.
UpdateWithPrediction(st, id, v) ==
    [st EXCEPT ![id] = [@ EXCEPT !.prediction = Val(v.actual_outcome),
                                 !.actual_outcome = v.actual_outcome,
                                 !.price_at_verification = v.price_at_verification,
                                 !.price_change_percent = v.price_change_percent,
                                 !.was_accurate = v.was_accurate,
                                 !.verified_at = v.verified_at]]

\* .update(verification).eq('id', id): the row with the given id gets the
\* five columns, whatever its current state.
UpdateVerification(st, id, v) ==
    [st EXCEPT ![id] = [@ EXCEPT !.actual_outcome = v.actual_outcome,
                                 !.price_at_verification = v.price_at_verification,
                                 !.price_change_percent = v.price_change_percent,
                                 !.was_accurate = v.was_accurate,
                                 !.verified_at = v.verified_at]]

\* .update({ created_at: now }).eq('id', id)
UpdateCreatedAt(st, id, t) == [st EXCEPT ![id].created_at = Some(t)]

\* fix-timestamps: .update({ created_at }).is('created_at', null), one statement.
FixNullTimestamps(st, t) ==
    [i \in DOMAIN st |-> IF IsNull(st[i].created_at)
                         THEN [st[i] EXCEPT !.created_at = Some(t)]
                         ELSE st[i]]

\* The staleness threshold of each call site, in hours.
StalenessHours(site) ==
    CASE site = "batch-verify" -> 2
      [] site = "predict-sentiment" -> 4
      [] OTHER -> 12

\* .limit(n) of each call site's selection.
SelectLimit(site) ==
    CASE site = "verify-predictions" -> 100
      [] site = "batch-verify" -> 50
      [] site = "predict-sentiment" -> 10
      [] OTHER -> 5

\* created_at.lt.<now - threshold>, and for the sites that add it the
\* created_at.is.null alternative; force drops the filter (verify-predictions).
AgeFilter(site, force, r, t) ==
    \/ site = "verify-predictions" /\ force
    \/ ~IsNull(r.created_at) /\ Val(r.created_at) < t - StalenessHours(site)
    \/ site \in {"verify-predictions", "auto-update"} /\ IsNull(r.created_at)

\* .eq('symbol', symbol) for the per-symbol sites.
SymbolFilter(site, sym, r) ==
    site \in {"predict-sentiment", "auto-update"} => r.symbol = sym

\* ORDER BY created_at DESC (NULLs first), ties in id order.
Before(a, b) ==
    IF IsNull(a.created_at) /\ IsNull(b.created_at) THEN a.id < b.id
    ELSE IF IsNull(a.created_at) THEN TRUE
    ELSE IF IsNull(b.created_at) THEN FALSE
    ELSE IF Val(a.created_at) # Val(b.created_at) THEN Val(a.created_at) > Val(b.created_at)
    ELSE a.id < b.id

\* The rows in that order.
OrderDesc(rows) == SortSeq(rows, Before)

\* The first n entries of a sequence.
Limit(seq, n) == IF Len(seq) <= n THEN seq ELSE SubSeq(seq, 1, n)

\* The Pending rows a call site selects, as the snapshot it iterates over.
SelectPending(site, force, sym, st, t) ==
    Limit(OrderDesc(SelectSeq(st, LAMBDA r : /\ IsPending(r)
                                             /\ AgeFilter(site, force, r, t)
                                             /\ SymbolFilter(site, sym, r))),
          SelectLimit(site))

----------------------------------------------------------------------------
\* The prediction engine: deterministic scorers and the language-model path.
\* Sentiment and trend are in thousandths, confidence in ten-thousandths.

Min(a, b) == IF a < b THEN a ELSE b

\* The aggregates predict-sentiment computes from the articles of a symbol.
Aggregates ==
    {[avgSentiment |-> 0, trend |-> 0, posCount |-> 0, negCount |-> 0, total |-> 0],
     [avgSentiment |-> 200, trend |-> 50, posCount |-> 3, negCount |-> 1, total |-> 5],
     [avgSentiment |-> -300, trend |-> -200, posCount |-> 2, negCount |-> 3, total |-> 6]}

\* Math.round(confidence * 100) / 100
RoundHundredths(c4) == ((c4 + 50) \div 100) * 100

\* The scorer with the weak-signal bands tested before the strong ones.
generateAlgorithmicPredictionWeakFirst(avgSentiment, trend, posCount, negCount) ==
    LET sentimentStrength == Abs(avgSentiment)
        trendStrength == Abs(trend)
        weak == Min(6500, 4000 + 10 * sentimentStrength)
        imbalance == Abs(posCount - negCount)
        both == posCount > 0 /\ negCount > 0
        below30 == IF both THEN imbalance * 10 < 3 * (posCount + negCount) ELSE FALSE
        below60 == IF both THEN imbalance * 10 < 6 * (posCount + negCount) ELSE TRUE
    IN [prediction |-> IF avgSentiment > 50 THEN "bullish"
                       ELSE IF avgSentiment < -50 THEN "bearish" ELSE "neutral",
        confidence |-> Some(RoundHundredths(IF sentimentStrength > 50 THEN weak
                                            ELSE 5000 + (1000 - sentimentStrength) * 3)),
        riskLevel |-> IF below30 THEN "high" ELSE IF below60 THEN "medium" ELSE "low",
        sentimentMomentum |-> IF trendStrength > 100
                              THEN (IF trend > 0 THEN "accelerating" ELSE "decelerating")
                              ELSE "stable",
        source |-> "algorithmic"]

generateAlgorithmicPrediction(avgSentiment, trend, posCount, negCount) ==
    LET sentimentStrength == Abs(avgSentiment)
        trendStrength == Abs(trend)
        strong == Min(8500, 5000 + 10 * sentimentStrength + 5 * trendStrength)
        weak == Min(6500, 4000 + 10 * sentimentStrength)
        prediction ==
            IF avgSentiment > 150 /\ trend >= 0 THEN "bullish"
            ELSE IF avgSentiment < -150 /\ trend <= 0 THEN "bearish"
            ELSE IF avgSentiment > 50 THEN "bullish"
            ELSE IF avgSentiment < -50 THEN "bearish"
            ELSE "neutral"
        confidence ==
            IF avgSentiment > 150 /\ trend >= 0 THEN strong
            ELSE IF avgSentiment < -150 /\ trend <= 0 THEN strong
            ELSE IF avgSentiment > 50 THEN weak
            ELSE IF avgSentiment < -50 THEN weak
            ELSE 5000 + (1000 - sentimentStrength) * 3
        imbalance == Abs(posCount - negCount)
        both == posCount > 0 /\ negCount > 0
        \* volatility = |pos - neg| / (pos + neg), 0.5 unless both are positive
        below30 == IF both THEN imbalance * 10 < 3 * (posCount + negCount) ELSE FALSE
        below60 == IF both THEN imbalance * 10 < 6 * (posCount + negCount) ELSE TRUE
    IN [prediction |-> prediction,
        confidence |-> Some(RoundHundredths(confidence)),
        riskLevel |-> IF below30 THEN "high" ELSE IF below60 THEN "medium" ELSE "low",
        sentimentMomentum |-> IF trendStrength > 100
                              THEN (IF trend > 0 THEN "accelerating" ELSE "decelerating")
                              ELSE "stable",
        source |-> "algorithmic"]

\* auto-update's scorer; change is the quote's percent change in hundredths
\* of a percent, trend = change / 100 and priceChange = change as passed by
\* the caller; the score is kept in hundred-thousandths.
generatePrediction(avgSentiment, change) ==
    LET combinedScore == 100 * avgSentiment + 5 * change + 300 * change
        prediction == IF combinedScore > 80000 THEN "bullish"
                      ELSE IF combinedScore < -80000 THEN "bearish"
                      ELSE "neutral"
        confidence5 == IF prediction = "neutral"
                       THEN 50000 + (Abs(combinedScore) * 3) \div 10
                       ELSE Min(90000, 60000 + Abs(combinedScore) \div 5)
    IN [prediction |-> prediction,
        confidence |-> Some((confidence5 + 5) \div 10),
        riskLevel |-> IF prediction = "bullish" THEN "low"
                      ELSE IF prediction = "bearish" THEN "high" ELSE "medium",
        sentimentMomentum |-> IF change > 1000 THEN "accelerating"
                              ELSE IF change < -1000 THEN "decelerating" ELSE "stable",
        source |-> "algorithmic"]

\* A JSON field the language model left out.
Missing == "undefined"

\* What the completion request can come back with: a rejected fetch, a
\* non-ok status, a body without choices[0], content that is not JSON, or
\* content holding a JSON object (any of whose fields may be absent or hold
\* a value of the model's own choosing: a confidence of 1.5, other labels).
AIResponses ==
    {[kind |-> k, prediction |-> Missing, confidence |-> None, riskLevel |-> Missing,
      sentimentMomentum |-> Missing, source |-> Missing] :
        k \in {"throw", "not_ok", "no_choices", "malformed"}}
    \cup
    {[kind |-> "json", prediction |-> "bullish", confidence |-> Some(8000),
      riskLevel |-> "low", sentimentMomentum |-> "stable", source |-> Missing],
     [kind |-> "json", prediction |-> "bearish", confidence |-> Some(7000),
      riskLevel |-> "high", sentimentMomentum |-> "decelerating", source |-> "algorithmic"],
     [kind |-> "json", prediction |-> Missing, confidence |-> Some(8000),
      riskLevel |-> "low", sentimentMomentum |-> "stable", source |-> Missing],
     [kind |-> "json", prediction |-> "bullish", confidence |-> None,
      riskLevel |-> "low", sentimentMomentum |-> "stable", source |-> Missing],
     [kind |-> "json", prediction |-> "neutral", confidence |-> Some(6000),
      riskLevel |-> Missing, sentimentMomentum |-> "stable", source |-> Missing],
     [kind |-> "json", prediction |-> "neutral", confidence |-> Some(6000),
      riskLevel |-> "medium", sentimentMomentum |-> Missing, source |-> Missing],
     [kind |-> "json", prediction |-> "bullish", confidence |-> Some(15000),
      riskLevel |-> "low", sentimentMomentum |-> "stable", source |-> Missing],
     [kind |-> "json", prediction |-> "bearish", confidence |-> Some(7000),
      riskLevel |-> "moderate", sentimentMomentum |-> "stable", source |-> Missing],
     [kind |-> "json", prediction |-> "bullish", confidence |-> Some(8000),
      riskLevel |-> "low", sentimentMomentum |-> "rising", source |-> Missing]}

\* { source: 'ai', ...JSON.parse(...) }: the parsed object's source wins.
AiPredictionSourceFirst(ai) ==
    [prediction |-> ai.prediction, confidence |-> ai.confidence, riskLevel |-> ai.riskLevel,
     sentimentMomentum |-> ai.sentimentMomentum,
     source |-> IF ai.source = Missing THEN "ai" ELSE ai.source]

\* prediction = { ...JSON.parse(...), source: 'ai' }
AiPrediction(ai) ==
    [prediction |-> ai.prediction, confidence |-> ai.confidence, riskLevel |-> ai.riskLevel,
     sentimentMomentum |-> ai.sentimentMomentum, source |-> "ai"]

\* The branch of serve that assigns `prediction`: no key, or any failure of
\* the request or of the parse, selects the deterministic scorer.
AiPathTaken(aiKey, ai) == aiKey /\ ai.kind = "json"

ChoosePrediction(aiKey, ai, agg) ==
    IF AiPathTaken(aiKey, ai) THEN AiPrediction(ai)
    ELSE generateAlgorithmicPrediction(agg.avgSentiment, agg.trend, agg.posCount, agg.negCount)

\* The row predict-sentiment inserts (created_at is left to the column default).
NewRow(id, sym, pr, agg, price, t) ==
    [id |-> id, symbol |-> sym,
     prediction |-> pr.prediction, confidence |-> pr.confidence,
     risk_level |-> pr.riskLevel, sentiment_momentum |-> pr.sentimentMomentum,
     source |-> IF pr.source \in {Missing, ""} THEN "algorithmic" ELSE pr.source,
     avg_sentiment |-> agg.avgSentiment, articles_analyzed |-> agg.total,
     price_at_prediction |-> price, created_at |-> Some(t),
     actual_outcome |-> None, price_at_verification |-> None,
     price_change_percent |-> None, was_accurate |-> None, verified_at |-> None]

\* livePrice?.price || null
PriceOrNull(price) == IF IsNull(price) \/ Val(price) = 0 THEN None ELSE price

\* The table's constraints on an inserted row (NOT NULL columns, the CHECK
\* on prediction, DECIMAL(5,4) for confidence).
InsertAccepts(row) ==
    /\ row.prediction \in {"bullish", "bearish", "neutral"}
    /\ ~IsNull(row.confidence) /\ Abs(Val(row.confidence)) < 100000
    /\ row.risk_level # Missing
    /\ row.sentiment_momentum # Missing

----------------------------------------------------------------------------
\* The edge functions as processes over the shared table.  Every await on
\* the table or on a provider is one step; the steps of concurrent
\* invocations interleave.

\* What a call of a site's fetchLivePrice can hand to its caller: null, or a
\* finite price with its percent change.
LiveQuotes ==
    [site \in VerifySites |->
        {[price |-> IF r.quote = NoQuote THEN None ELSE Some(r.quote.price.v),
          change |-> IF r.quote = NoQuote \/ site # "auto-update" THEN 0 ELSE r.quote.change.v] :
            r \in {x \in {fetchLivePrice(site, key, av, ys) :
                            key \in BOOLEAN, av \in AVResponses, ys \in ChartVectors(site)} :
                      \/ x.quote = NoQuote
                      \/ /\ x.quote.price.t = "num" /\ x.quote.price.v \in QuotePrices
                         /\ x.quote.change.t = "num"}}]

\* The same, with the quote whose price is Infinity where the site's
\* fetchLivePrice lets it through.
AllQuotes ==
    [site \in VerifySites |->
        LiveQuotes[site] \cup
        {[price |-> Some(InfinitePrice), change |-> 0] :
            r \in {x \in {fetchLivePrice(site, key, av, ys) :
                            key \in BOOLEAN, av \in AVResponses, ys \in ChartVectors(site)} :
                      x.quote # NoQuote /\ x.quote.price = Infinity}}]

NoPrediction ==
    [prediction |-> Missing, confidence |-> None, riskLevel |-> Missing,
     sentimentMomentum |-> Missing, source |-> Missing]

NoAggregate == [avgSentiment |-> 0, trend |-> 0, posCount |-> 0, negCount |-> 0, total |-> 0]

\* The completion request before it has been made.
NoReply ==
    [kind |-> "none", prediction |-> Missing, confidence |-> None, riskLevel |-> Missing,
     sentimentMomentum |-> Missing, source |-> Missing]

\* The local variables of an invocation.  seen, aiKey, reply, path,
\* inserted, fetched and repaired are history variables: the rows already
\* Verified when the invocation began, whether the language-model key was
\* configured and what the completion request came back with, the branch
\* that assigned `prediction`, the number of rows the invocation stored, the
\* symbols it has asked the price oracle for (in order) and the rows whose
\* created_at it has stamped.
IdleRun ==
    [kind |-> "idle", pc |-> "idle", force |-> FALSE, symbol |-> "",
     todo |-> <<>>, sel |-> <<>>, cur |-> <<>>, total |-> 0,
     price |-> None, verified |-> 0, errors |-> 0,
     agg |-> NoAggregate, pred |-> NoPrediction, status |-> 0, dbError |-> FALSE,
     seen |-> {}, aiKey |-> FALSE, reply |-> NoReply, path |-> "none", inserted |-> 0,
     fetched |-> <<>>, repaired |-> {}]

VerifiedIds(st) == {i \in DOMAIN st : IsVerified(st[i])}

\* [...new Set(rows.map(r => r.symbol))] / the key order of symbolGroups.
RECURSIVE SymbolsOf(_)
SymbolsOf(rows) ==
    IF rows = <<>> THEN <<>>
    ELSE LET rest == SymbolsOf(SelectSeq(Tail(rows), LAMBDA r : r.symbol # Head(rows).symbol))
         IN <<Head(rows).symbol>> \o rest

GroupOf(rows, sym) == SelectSeq(rows, LAMBDA r : r.symbol = sym)

\* Rows the running invocations may still insert.
Reserved ==
    LET need(p) == IF run[p].pc \in {"idle", "done"} THEN 0
                   ELSE IF run[p].kind = "predict-sentiment" THEN 1
                   ELSE IF run[p].kind = "auto-update" THEN Len(run[p].todo)
                   ELSE 0
        RECURSIVE sum(_)
        sum(S) == IF S = {} THEN 0
                  ELSE LET q == CHOOSE q \in S : TRUE IN need(q) + sum(S \ {q})
    IN sum(Procs)

\* verify-predictions (force flag from the body) and batch-verify: the
\* selection of Pending rows and the grouping by symbol.
StartVerification(p, site, force) ==
    /\ run[p].kind = "idle"
    /\ site \in {"verify-predictions", "batch-verify"}
    /\ site = "batch-verify" => ~force
    /\ LET rows == SelectPending(site, force, "", store, now)
           base == [IdleRun EXCEPT !.kind = site, !.force = force,
                                   !.seen = VerifiedIds(store)]
       IN run' = [run EXCEPT ![p] =
                    IF rows = <<>> THEN [base EXCEPT !.pc = "done", !.status = 200]
                    ELSE [base EXCEPT !.pc = "fetch", !.sel = rows, !.total = Len(rows),
                                      !.todo = SymbolsOf(rows)]]
    /\ UNCHANGED <<store, now, orc>>

\* Leaving a symbol group: the next group, or the response.
NextGroup(r) ==
    IF Len(r.todo) <= 1
    THEN [r EXCEPT !.todo = <<>>, !.cur = <<>>, !.sel = <<>>, !.price = None,
                   !.pc = "done", !.status = 200]
    ELSE [r EXCEPT !.todo = Tail(r.todo), !.cur = <<>>, !.price = None, !.pc = "fetch",
                   !.sel = SelectSeq(r.sel, LAMBDA x : x.symbol # Head(r.todo))]

\* const livePrice = await fetchLivePrice(symbol) at the head of a group.
FetchGroupPrice(p, quotes) ==
    /\ run[p].kind \in {"verify-predictions", "batch-verify"}
    /\ run[p].pc = "fetch"
    /\ LET r == run[p]
           group == GroupOf(r.sel, Head(r.todo))
       IN \E q \in quotes[r.kind] :
            run' = [run EXCEPT ![p] =
                IF IsNull(q.price)
                THEN NextGroup([r EXCEPT !.fetched = Append(@, Head(r.todo)), !.errors =
                        IF r.kind = "verify-predictions" THEN @ + Len(group) ELSE @])
                ELSE [r EXCEPT !.price = q.price, !.cur = group, !.pc = "pred",
                               !.fetched = Append(@, Head(r.todo)),
                               !.sel = SelectSeq(r.sel, LAMBDA x : x.symbol # Head(r.todo))]]
    /\ UNCHANGED <<store, now, orc>>

\* What an awaited update of the table can do: change the row, return an
\* error object and change nothing, or throw.
UpdateOutcomes == {"ok", "error", "throws"}
ReturnedOutcomes == {"ok", "error"}

\* The catch block an update that throws lands in: verify-predictions counts
\* an error and goes on with the next row, batch-verify answers 500 from its
\* only catch, verifyPastPredictions gives up its list, auto-update goes on
\* with its next symbol.
AfterThrow(r) ==
    CASE r.kind = "verify-predictions" ->
            LET x == [r EXCEPT !.cur = Tail(r.cur), !.errors = @ + 1]
            IN IF x.cur = <<>> THEN NextGroup(x) ELSE x
      [] r.kind = "batch-verify" ->
            [r EXCEPT !.todo = <<>>, !.cur = <<>>, !.sel = <<>>, !.price = None,
                      !.pc = "done", !.status = 500]
      [] r.kind = "predict-sentiment" -> [r EXCEPT !.cur = <<>>, !.pc = "score"]
      [] OTHER -> NextGroup(r)

\* verify-predictions: if (!prediction.created_at) update created_at by id.
RepairCreatedAt(p, outcomes) ==
    /\ run[p].kind = "verify-predictions"
    /\ run[p].pc = "pred"
    /\ run[p].cur # <<>>
    /\ IsNull(Head(run[p].cur).created_at)
    /\ \E out \in outcomes :
         /\ store' = IF out = "ok" THEN UpdateCreatedAt(store, Head(run[p].cur).id, now)
                     ELSE store
         /\ run' = IF out = "throws"
                   THEN [run EXCEPT ![p] = AfterThrow(run[p])]
                   ELSE [run EXCEPT ![p].cur[1].created_at = Some(now),
                                    ![p].repaired = @ \cup {Head(run[p].cur).id}]
    /\ UNCHANGED <<now, orc>>

\* After the last row of a list: what each function does next.
AfterRows(r) ==
    CASE r.kind = "predict-sentiment" -> [r EXCEPT !.cur = <<>>, !.pc = "score"]
      [] OTHER -> NextGroup(r)

\* One row of the list: skipped when its price_at_prediction is invalid,
\* else verified against the group's live price and updated by id.
VerifyRow(p, outcomes) ==
    /\ run[p].kind \in VerifySites
    /\ run[p].pc = "pred"
    /\ run[p].cur # <<>>
    /\ run[p].kind = "verify-predictions" => ~IsNull(Head(run[p].cur).created_at)
    /\ LET r == run[p]
           row == Head(r.cur)
           rest == [r EXCEPT !.cur = Tail(r.cur)]
           counted == IF r.kind \in {"verify-predictions", "batch-verify"}
                      THEN [rest EXCEPT !.verified = @ + 1] ELSE rest
           after(x) == IF x.cur = <<>> THEN AfterRows(x) ELSE x
       IN IF InvalidPrice(row.price_at_prediction)
          THEN /\ run' = [run EXCEPT ![p] = after(rest)]
               /\ store' = store
          ELSE \E out \in outcomes :
                 /\ store' = IF out = "ok"
                             THEN UpdateVerification(store, row.id,
                                       JsonBody(Verification(r.kind, row, Val(r.price), now)))
                             ELSE store
                 /\ run' = [run EXCEPT ![p] = IF out = "throws" THEN AfterThrow(r)
                                              ELSE after(counted)]
    /\ UNCHANGED <<now, orc>>

\* predict-sentiment: the request arrives and the live price is fetched.
StartPredict(p, sym) ==
    /\ run[p].kind = "idle"
    /\ Len(store) + Reserved < MaxRecords
    /\ \E q \in LiveQuotes["predict-sentiment"] :
         run' = [run EXCEPT ![p] =
                    [IdleRun EXCEPT !.kind = "predict-sentiment", !.symbol = sym,
                                    !.seen = VerifiedIds(store),
                                    !.price = q.price, !.fetched = <<sym>>,
                                    !.pc = IF IsNull(q.price) THEN "score" ELSE "select"]]
    /\ UNCHANGED <<store, now, orc>>

\* verifyPastPredictions / auto-update: the selection of the symbol's old
\* Pending rows.
SelectOld(p) ==
    /\ run[p].kind \in {"predict-sentiment", "auto-update"}
    /\ run[p].pc = "select"
    /\ LET r == run[p]
           rows == SelectPending(r.kind, FALSE, r.symbol, store, now)
       IN run' = [run EXCEPT ![p] =
                    IF rows = <<>> THEN AfterRows(r)
                    ELSE [r EXCEPT !.cur = rows, !.pc = "pred"]]
    /\ UNCHANGED <<store, now, orc>>

\* predict-sentiment: the articles are read and aggregated, then either the
\* language model or the deterministic scorer assigns `prediction`.
Score(p, aggregates, responses) ==
    /\ run[p].kind = "predict-sentiment"
    /\ run[p].pc = "score"
    /\ \E fetchError \in BOOLEAN, agg \in aggregates, aiKey \in BOOLEAN, ai \in responses :
         run' = [run EXCEPT ![p] =
            IF fetchError
            THEN [@ EXCEPT !.pc = "done", !.status = 500]
            ELSE [@ EXCEPT !.pc = "insert", !.agg = agg, !.aiKey = aiKey,
                           !.reply = IF aiKey THEN ai ELSE NoReply,
                           !.pred = ChoosePrediction(aiKey, ai, agg),
                           !.path = IF AiPathTaken(aiKey, ai) THEN "ai" ELSE "algorithmic"]]
    /\ UNCHANGED <<store, now, orc>>

\* predict-sentiment: the insert into prediction_history and the response.
InsertPrediction(p) ==
    /\ run[p].kind = "predict-sentiment"
    /\ run[p].pc = "insert"
    /\ LET r == run[p]
           row == NewRow(Len(store) + 1, r.symbol, r.pred, r.agg, PriceOrNull(r.price), now)
       IN \E dbOk \in BOOLEAN :
            IF dbOk /\ InsertAccepts(row)
            THEN /\ store' = Append(store, row)
                 /\ run' = [run EXCEPT ![p] = [r EXCEPT !.pc = "done", !.status = 200,
                                                        !.inserted = @ + 1]]
            ELSE /\ store' = store
                 /\ run' = [run EXCEPT ![p] = [r EXCEPT !.pc = "done", !.status = 200,
                                                        !.dbError = TRUE]]
    /\ UNCHANGED <<now, orc>>

\* auto-update: the symbols of the latest rows, without duplicates.
StartAutoUpdate(p) ==
    /\ run[p].kind = "idle"
    /\ LET syms == SymbolsOf(Limit(OrderDesc(store), 20))
           base == [IdleRun EXCEPT !.kind = "auto-update", !.seen = VerifiedIds(store)]
       IN /\ Len(store) + Reserved + Len(syms) <= MaxRecords
          /\ run' = [run EXCEPT ![p] =
                IF syms = <<>> THEN [base EXCEPT !.pc = "done", !.status = 200]
                ELSE [base EXCEPT !.pc = "fetch", !.todo = syms]]
    /\ UNCHANGED <<store, now, orc>>

\* auto-update: the live price of the next symbol and the new prediction
\* (no articles are fetched, so avgSentiment is 0).
AutoFetchPrice(p) ==
    /\ run[p].kind = "auto-update"
    /\ run[p].pc = "fetch"
    /\ \E q \in LiveQuotes["auto-update"] :
         run' = [run EXCEPT ![p] =
            IF IsNull(q.price)
            THEN NextGroup([run[p] EXCEPT !.fetched = Append(@, Head(run[p].todo))])
            ELSE [run[p] EXCEPT !.symbol = Head(run[p].todo), !.price = q.price,
                                !.fetched = Append(@, Head(run[p].todo)),
                                !.pred = generatePrediction(0, q.change),
                                !.path = "algorithmic", !.pc = "insert"]]
    /\ UNCHANGED <<store, now, orc>>

\* auto-update: the insert of the new row (created_at set by the caller).
AutoInsert(p) ==
    /\ run[p].kind = "auto-update"
    /\ run[p].pc = "insert"
    /\ LET r == run[p]
           row == NewRow(Len(store) + 1, r.symbol, r.pred, NoAggregate, r.price, now)
       IN \E dbOk \in BOOLEAN :
            IF dbOk /\ InsertAccepts(row)
            THEN /\ store' = Append(store, row)
                 /\ run' = [run EXCEPT ![p] = [r EXCEPT !.pc = "select", !.inserted = @ + 1]]
            ELSE /\ store' = store
                 /\ run' = [run EXCEPT ![p] = NextGroup(r)]
    /\ UNCHANGED <<now, orc>>

\* The response has been sent; the invocation is over.
Return(p) ==
    /\ run[p].pc = "done"
    /\ run' = [run EXCEPT ![p] = IdleRun]
    /\ UNCHANGED <<store, now, orc>>

\* fix-timestamps: one UPDATE over all rows with a null created_at.
FixTimestamps ==
    /\ \E i \in DOMAIN store : IsNull(store[i].created_at)
    /\ store' = FixNullTimestamps(store, now)
    /\ UNCHANGED <<now, run, orc>>

\* Time passes.
Tick ==
    \E d \in TickSteps :
    /\ now + d <= MaxTime
    /\ now' = now + d
    /\ UNCHANGED <<store, run, orc>>

\* A row as an earlier deployment left it: Pending, with a price, and with
\* or without a created_at.
LegacyRow(id, sym, created) ==
    [id |-> id, symbol |-> sym, prediction |-> "bullish", confidence |-> Some(6000),
     risk_level |-> "medium", sentiment_momentum |-> "stable", source |-> "algorithmic",
     avg_sentiment |-> 0, articles_analyzed |-> 0,
     price_at_prediction |-> Some(1000), created_at |-> created,
     actual_outcome |-> None, price_at_verification |-> None,
     price_change_percent |-> None, was_accurate |-> None, verified_at |-> None]

InitialStores ==
    {<<>>} \cup {<<LegacyRow(1, sym, c)>> : sym \in Symbols, c \in {None, Some(-LegacyAge)}}

Init ==
    /\ store \in InitialStores
    /\ now = 0
    /\ run = [p \in Procs |-> IdleRun]
    /\ orc = OracleIdle

\* The aggregates and completions the interleaved model draws from.
SpecAggregates == {a \in Aggregates : a.total = 5}
SpecResponses == {a \in AIResponses : a.kind = "not_ok"}

Step(p) ==
    \/ \E site \in {"verify-predictions", "batch-verify"}, force \in BOOLEAN :
            StartVerification(p, site, force)
    \/ FetchGroupPrice(p, LiveQuotes)
    \/ RepairCreatedAt(p, ReturnedOutcomes)
    \/ VerifyRow(p, ReturnedOutcomes)
    \/ p \in Inserters /\ \E sym \in Symbols : StartPredict(p, sym)
    \/ SelectOld(p)
    \/ Score(p, SpecAggregates, SpecResponses)
    \/ InsertPrediction(p)
    \/ p \in Inserters /\ StartAutoUpdate(p)
    \/ AutoFetchPrice(p)
    \/ AutoInsert(p)
    \/ Return(p)

Next ==
    \/ \E p \in Procs : Step(p)
    \/ FixTimestamps
    \/ Tick

Spec == Init /\ [][Next]_vars

----------------------------------------------------------------------------
\* One call of a price function against fixed provider responses.

InitOracle ==
    /\ store = <<>>
    /\ now = 0
    /\ run = [p \in Procs |-> IdleRun]
    /\ \E fn \in PriceFns, key \in BOOLEAN, av \in AVResponses :
         \E ys \in ChartVectors(fn) :
            orc = [fn |-> fn, key |-> key, av |-> av, ys |-> ys,
                   pc |-> "called", quote |-> NoQuote, tried |-> <<>>]

\* The function runs to its return statement.
OracleReturn ==
    /\ orc.pc = "called"
    /\ LET r == fetchLivePrice(orc.fn, orc.key, orc.av, orc.ys)
       IN orc' = [orc EXCEPT !.pc = "returned", !.quote = r.quote, !.tried = r.tried]
    /\ UNCHANGED <<store, now, run>>

NextOracle == OracleReturn

SpecOracle == InitOracle /\ [][NextOracle]_vars

----------------------------------------------------------------------------
\* predict-sentiment alone, one invocation after another, over every
\* aggregate and every completion.

NextPredict ==
    \/ \E sym \in Symbols : StartPredict(1, sym)
    \/ SelectOld(1)
    \/ VerifyRow(1, ReturnedOutcomes)
    \/ Score(1, Aggregates, AIResponses)
    \/ InsertPrediction(1)
    \/ Return(1)
    \/ Tick

SpecPredict == Init /\ [][NextPredict]_vars

----------------------------------------------------------------------------
\* Properties of the table under interleaved invocations (Spec).

\* The step is taken by process p.
ActsAs(p) == run'[p] # run[p]

\* The identity, forecast and provenance columns of a row.
ForecastFields(r) ==
    <<r.id, r.symbol, r.created_at, r.prediction, r.confidence, r.risk_level,
      r.sentiment_momentum, r.source, r.avg_sentiment, r.articles_analyzed,
      r.price_at_prediction>>

\* C1: Verified is terminal and verification is idempotent.  A row whose five
\* verification columns are set stays in the table with all five set, and no
\* invocation that began after the row was Verified (the row is in the
\* invocation's seen set) changes any of the five.
C1_VerifiedIsTerminal ==
    [][\A i \in DOMAIN store :
          IsVerified(store[i]) =>
             /\ i \in DOMAIN store'
             /\ IsVerified(store'[i])
             /\ VerificationFields(store'[i]) # VerificationFields(store[i]) =>
                   \E p \in Procs : ActsAs(p) /\ i \notin run[p].seen]_vars

\* C1 witness: a verification run that began when a row was already Verified
\* has verified another row and reached its response.
C1_LaterRunFinished ==
    \E p \in Procs :
        /\ run[p].kind \in {"verify-predictions", "batch-verify"}
        /\ run[p].pc = "done"
        /\ run[p].verified >= 1
        /\ run[p].seen # {}
        /\ \A i \in run[p].seen : IsVerified(store[i])

\* C2: with interleaved verification runs a row is verified at most once: the
\* price_at_verification of a Verified row is never replaced.
C2_VerifiedAtMostOnce ==
    [][\A i \in DOMAIN store :
          IsVerified(store[i]) =>
             store'[i].price_at_verification = store[i].price_at_verification]_vars

C4_CreatedAtImmutable ==
    [][\A i \in DOMAIN store :
          ~IsNull(store[i].created_at) => store'[i].created_at = store[i].created_at]_vars

\* The staleness threshold the documentation states, in hours.
DocumentedStaleness == 12

\* C5: without force, a row with a created_at leaves Pending only when it is
\* more than 12 hours old.
C5_VerifiedOnlyWhenStale ==
    [][\A i \in DOMAIN store :
          (IsPending(store[i]) /\ ~IsPending(store'[i]) /\ ~IsNull(store[i].created_at)) =>
             \/ now - Val(store[i].created_at) > DocumentedStaleness
             \/ \E p \in Procs : ActsAs(p) /\ run[p].force]_vars

----------------------------------------------------------------------------
\* Properties of the price functions (SpecOracle).

\* The function has returned a quote (not null / 404).
Returned == orc.pc = "returned"
GotQuote == Returned /\ orc.quote # NoQuote

\* C6: every returned quote has a finite price strictly greater than 0.
C6_ReturnedPriceUsable == GotQuote => Usable(orc.quote.price)

\* The providers a function asks at all, and whether the answer of one of
\* them, as the function reads it, is a usable quote.
AsksPremium(fn, key) == key /\ fn # "batch-verify"
YieldsUsable(fn, key, av, ys) ==
    \/ AsksPremium(fn, key) /\ Usable(PremiumAttempt(fn, av).price)
    \/ \E i \in 1..NumSources(fn) : Usable(ChartAttempt(fn, ys[i], i).price)

\* C7: a price function returns null exactly when none of its providers
\* yielded a usable quote.
C7_NotFoundIffAllFailed ==
    Returned => (orc.quote = NoQuote <=> ~YieldsUsable(orc.fn, orc.key, orc.av, orc.ys))

\* C8 (as stated): in every price function with the premium credential
\* configured, the premium provider is the first one asked.
C8_PremiumAlwaysFirst ==
    (Returned /\ orc.key) => (orc.tried # <<>> /\ orc.tried[1] = "premium")

\* The order in which each function is written to ask its providers.
Charts(fn) == [i \in 1..NumSources(fn) |-> ChartName(i)]
ProviderOrder(fn, key) ==
    CASE fn = "batch-verify" -> Charts(fn)
      [] fn = "live-data-fetcher" -> Charts(fn) \o (IF key THEN <<"premium">> ELSE <<>>)
      [] OTHER -> (IF key THEN <<"premium">> ELSE <<>>) \o Charts(fn)

\* What the provider of a given name answers, as the function reads it.
AnswerOf(fn, name, av, ys) ==
    IF name = "premium" THEN PremiumAttempt(fn, av)
    ELSE LET i == CHOOSE j \in 1..NumSources(fn) : ChartName(j) = name
         IN ChartAttempt(fn, ys[i], i)

\* C8 (amended): each function asks its providers in its own fixed order
\* (premium then charts; charts then premium in live-data-fetcher; charts
\* only in batch-verify), stops at the first answer its own check accepts
\* and returns that answer; it returns null only after asking all of them.
C8_FixedOrderPerFunction ==
    Returned =>
        LET order == ProviderOrder(orc.fn, orc.key)
            n == Len(orc.tried)
        IN /\ n <= Len(order)
           /\ orc.tried = SubSeq(order, 1, n)
           /\ \A j \in 1..(n - 1) : AnswerOf(orc.fn, order[j], orc.av, orc.ys) = NoQuote
           /\ IF orc.quote = NoQuote
              THEN /\ n = Len(order)
                   /\ \A j \in 1..n : AnswerOf(orc.fn, order[j], orc.av, orc.ys) = NoQuote
              ELSE /\ n >= 1
                   /\ orc.quote = AnswerOf(orc.fn, order[n], orc.av, orc.ys)
                   /\ orc.quote.provider = order[n]

\* C8 witness: live-data-fetcher, with the credential configured, returned
\* the premium quote after its chart endpoint had failed.
C8_ChartAskedBeforePremium ==
    /\ GotQuote
    /\ orc.fn = "live-data-fetcher"
    /\ orc.key
    /\ orc.tried = <<"chart1", "premium">>
    /\ orc.quote.provider = "premium"

----------------------------------------------------------------------------
\* Properties of predict-sentiment (SpecPredict).

\* The forecast fields the language model is asked for.
Populated(pr) ==
    /\ pr.prediction # Missing
    /\ ~IsNull(pr.confidence)
    /\ pr.riskLevel # Missing
    /\ pr.sentimentMomentum # Missing

\* The configured language model failed: the request threw, the status was
\* not ok, the content was not JSON, or the JSON lacks a forecast field.
OverrideFailed(r) ==
    /\ r.aiKey
    /\ r.reply.kind # "json" \/ ~Populated(r.reply)

\* The invocation has assigned `prediction` (it is at the insert or past it
\* with status 200).
HasForecast(r) ==
    /\ r.kind = "predict-sentiment"
    /\ r.pc = "insert" \/ (r.pc = "done" /\ r.status = 200)

\* C9: when the configured language model fails in any of these ways, the
\* forecast is the deterministic scorer's: source algorithmic, all fields set.
C9_FailureFallsBack ==
    \A p \in Procs :
        (HasForecast(run[p]) /\ OverrideFailed(run[p])) =>
            /\ run[p].pred.source = "algorithmic"
            /\ Populated(run[p].pred)

\* C10 (as stated): every predict call that has responded stored exactly one row.
C10_ExactlyOneRecord ==
    \A p \in Procs :
        (run[p].kind = "predict-sentiment" /\ run[p].pc = "done") => run[p].inserted = 1

\* C10 (amended): a predict call stores at most one row, and only in its
\* insert step: exactly one when the table accepts the insert, none when the
\* insert fails (the error is only logged) or the call ends before it.  The
\* stored row is Pending and carries the call's forecast, with source 'ai'
\* if and only if the language-model branch assigned the forecast and
\* 'algorithmic' otherwise.
C10_AtMostOneRecord ==
    [][\A p \in Procs :
          (run[p].kind = "predict-sentiment" /\ ActsAs(p)) =>
             IF run[p].pc = "insert"
             THEN /\ run'[p].pc = "done"
                  /\ IF run'[p].dbError
                     THEN store' = store /\ run'[p].inserted = 0
                     ELSE /\ Len(store') = Len(store) + 1
                          /\ run'[p].inserted = 1
                          /\ LET row == store'[Len(store')]
                             IN /\ VerificationFields(row) = <<None, None, None, None, None>>
                                /\ row.symbol = run[p].symbol
                                /\ row.prediction = run[p].pred.prediction
                                /\ row.confidence = run[p].pred.confidence
                                /\ row.source \in {"ai", "algorithmic"}
                                /\ row.source = "ai" <=> run[p].path = "ai"
                                /\ run[p].path = "ai" <=> AiPathTaken(run[p].aiKey, run[p].reply)
             ELSE /\ Len(store') = Len(store)
                  /\ run'[p].kind = run[p].kind => run'[p].inserted = run[p].inserted]_vars

\* C10 witness: a call whose forecast came from the language model has
\* stored its row, Pending and with source 'ai'.
C10_StoredAiForecast ==
    \E p \in Procs :
        /\ run[p].kind = "predict-sentiment"
        /\ run[p].pc = "done"
        /\ run[p].inserted = 1
        /\ run[p].path = "ai"
        /\ store # <<>>
        /\ store[Len(store)].source = "ai"
        /\ IsPending(store[Len(store)])

----------------------------------------------------------------------------
\* One verification of one row: the arithmetic of verifyPrediction and of
\* its copies in batch-verify, predict-sentiment and auto-update, applied to
\* a drawn prediction, price_at_prediction and current price.  In this
\* specification orc holds the call under examination.

\* Current prices around every threshold of every call site, for a
\* price_at_prediction of 1000 (100.0): 0.5, 0.8, 1.5, 2, 2.5 and 3 percent
\* either way, one tenth of a percent on both sides of each.
VerifyCurs ==
    {969, 970, 971, 974, 975, 976, 979, 980, 981, 984, 985, 986, 991, 992, 993,
     994, 995, 996, 1000, 1004, 1005, 1006, 1007, 1008, 1009, 1014, 1015, 1016,
     1019, 1020, 1021, 1024, 1025, 1026, 1029, 1030, 1031}
\* The price_at_prediction values a stored row can carry.
VerifyPaps == {None, Some(0), Some(-5), Some(1000)}
Predictions == {"bullish", "bearish", "neutral"}

\* The row handed to the verification.
RowWith(prediction, pap) ==
    [LegacyRow(1, "AAPL", Some(0)) EXCEPT !.prediction = prediction,
                                          !.price_at_prediction = pap]

InitVerify ==
    /\ store = <<>>
    /\ now = 0
    /\ run = [p \in Procs |-> IdleRun]
    /\ \E site \in VerifySites, prediction \in Predictions, pap \in VerifyPaps,
          cur \in VerifyCurs :
            orc = [fn |-> site, pc |-> "called", prediction |-> prediction,
                   pap |-> pap, cur |-> cur, result |-> None]

\* The verification runs to its result: null for an invalid
\* price_at_prediction, else the update object.
VerifyReturn ==
    /\ orc.pc = "called"
    /\ orc' = [orc EXCEPT !.pc = "returned",
                          !.result = IF InvalidPrice(orc.pap) THEN None
                                     ELSE Some(Verification(orc.fn,
                                                 RowWith(orc.prediction, orc.pap),
                                                 orc.cur, now))]
    /\ UNCHANGED <<store, now, run>>

NextVerify == VerifyReturn

SpecVerify == InitVerify /\ [][NextVerify]_vars

\* The call produced an update object.
Verified == orc.pc = "returned" /\ ~IsNull(orc.result)
\* price_change_percent compared with a threshold given in hundredths of a
\* percent, without rounding.
PctAbove(bp) == (orc.cur - Val(orc.pap)) * 10000 > bp * Val(orc.pap)
PctBelow(bp) == (orc.cur - Val(orc.pap)) * 10000 < bp * Val(orc.pap)
Outcome == Val(Val(orc.result).actual_outcome)
Accurate == Val(Val(orc.result).was_accurate)

\* C13: with T the band of the call site, the realized outcome is bullish iff
\* p > T, bearish iff p < -T and neutral otherwise; p = T and p = -T are
\* neutral, and every p gets exactly one outcome.
C13_OutcomePartition ==
    Verified =>
        LET T == Band(orc.fn)
        IN /\ Outcome \in Predictions
           /\ Outcome = "bullish" <=> PctAbove(T)
           /\ Outcome = "bearish" <=> PctBelow(-T)
           /\ Outcome = "neutral" <=> (~PctAbove(T) /\ ~PctBelow(-T))

\* C13 witness: a move of exactly T (2 percent in verify-predictions) was
\* classified neutral.
C13_EdgeIsNeutral ==
    /\ Verified
    /\ orc.fn = "verify-predictions"
    /\ orc.pap = Some(1000) /\ orc.cur = 1020
    /\ Outcome = "neutral"

\* C14: a neutral prediction is accurate iff |p| < T + 0.5, T being the band
\* of the call site; and a prediction equal to the outcome is accurate.
C14_NeutralTolerance ==
    Verified =>
        LET T == Band(orc.fn)
        IN /\ orc.prediction = Outcome => Accurate
           /\ orc.prediction = "neutral" =>
                 (Accurate <=> (PctBelow(T + 50) /\ PctAbove(-(T + 50))))

\* C15: a bullish prediction is accurate for every p > 0.5 and a bearish one
\* for every p < -0.5; with price_at_prediction 100 and current price 100.8
\* bullish is accurate and bearish is not.
C15_DirectionalLeniency ==
    Verified =>
        /\ (orc.prediction = "bullish" /\ PctAbove(50)) => Accurate
        /\ (orc.prediction = "bearish" /\ PctBelow(-50)) => Accurate
        /\ (orc.pap = Some(1000) /\ orc.cur = 1008) =>
              /\ Outcome = "neutral"
              /\ orc.prediction = "bullish" => Accurate
              /\ orc.prediction = "bearish" => ~Accurate

----------------------------------------------------------------------------
\* The accuracy summaries: calculateAccuracyStats (predict-sentiment),
\* getOverallStats and getTypeBreakdown (the history page) and
\* analyzeHistoricalPatterns (real-time-predictor), applied to a drawn
\* collection of rows.  The summaries only count rows, so a collection is
\* given by the number of rows of each prediction that are Pending
\* (was_accurate null), accurate and inaccurate.  Ratios are in thousandths.

\* How many rows a collection holds of one kind.
HistoryCounts == {0, 1, 20}
Histories ==
    [Predictions -> [pending : HistoryCounts, correct : HistoryCounts, wrong : HistoryCounts]]

SummaryFns == {"calculateAccuracyStats", "getOverallStats", "getTypeBreakdown",
               "analyzeHistoricalPatterns"}

\* history.length, verified.length and accurate.length
TotalOf(h, t) == h[t].pending + h[t].correct + h[t].wrong
HistoryLength(h) == TotalOf(h, "bullish") + TotalOf(h, "bearish") + TotalOf(h, "neutral")
VerifiedLength(h) ==
    h["bullish"].correct + h["bullish"].wrong + h["bearish"].correct + h["bearish"].wrong
    + h["neutral"].correct + h["neutral"].wrong
AccurateLength(h) == h["bullish"].correct + h["bearish"].correct + h["neutral"].correct

\* a / b in JavaScript: NaN for 0 / 0, Infinity for a / 0.
Quotient(a, b) ==
    IF b # 0 THEN Num((a * 1000) \div b)
    ELSE IF a = 0 THEN NaN ELSE Infinity

\* Math.round of a ratio to tenths of a percent / to whole percents.
RoundedPermille(a, b) == Num((2000 * a + b) \div (2 * b))
RoundedPercent(a, b) == Num(10 * ((200 * a + b) \div (2 * b)))

calculateAccuracyStats(h) ==
    [accuracyRate |-> IF VerifiedLength(h) > 0
                      THEN Quotient(AccurateLength(h), VerifiedLength(h)) ELSE Num(0)]

getOverallStats(h) ==
    [accuracy |-> IF VerifiedLength(h) > 0
                  THEN RoundedPermille(AccurateLength(h), VerifiedLength(h)) ELSE Num(0)]

getTypeBreakdown(h) ==
    [t \in Predictions |->
        IF TotalOf(h, t) > 0 THEN RoundedPercent(h[t].correct, TotalOf(h, t)) ELSE Num(0)]

analyzeHistoricalPatterns(h) ==
    IF HistoryLength(h) < 20
    THEN [accuracy |-> Num(500), bullishAccuracy |-> Num(500), bearishAccuracy |-> Num(500)]
    ELSE [accuracy |-> Quotient(AccurateLength(h), HistoryLength(h)),
          bullishAccuracy |-> Quotient(h["bullish"].correct, TotalOf(h, "bullish")),
          bearishAccuracy |-> Quotient(h["bearish"].correct, TotalOf(h, "bearish"))]

Summarize(fn, h) ==
    CASE fn = "calculateAccuracyStats" -> calculateAccuracyStats(h)
      [] fn = "getOverallStats" -> getOverallStats(h)
      [] fn = "getTypeBreakdown" -> getTypeBreakdown(h)
      [] OTHER -> analyzeHistoricalPatterns(h)

InitStats ==
    /\ store = <<>>
    /\ now = 0
    /\ run = [p \in Procs |-> IdleRun]
    /\ \E fn \in SummaryFns, h \in Histories :
          orc = [fn |-> fn, pc |-> "called", history |-> h, result |-> <<>>]

\* The summary runs to its return statement.
SummaryReturn ==
    /\ orc.pc = "called"
    /\ orc' = [orc EXCEPT !.pc = "returned", !.result = Summarize(orc.fn, orc.history)]
    /\ UNCHANGED <<store, now, run>>

NextStats == SummaryReturn

SpecStats == InitStats /\ [][NextStats]_vars

\* The names under which a summary reports its overall accuracy.
OverallNames == {"accuracyRate", "accuracy"}

\* C16: every number a summary yields is a number (never NaN), and the
\* overall accuracy is 0 for a collection without verified rows.
C16_SummaryIsNumber ==
    orc.pc = "returned" =>
        /\ \A k \in DOMAIN orc.result : orc.result[k].t = "num"
        /\ \A k \in DOMAIN orc.result \cap OverallNames :
              VerifiedLength(orc.history) = 0 => orc.result[k] = Num(0)

----------------------------------------------------------------------------
\* The response of predict-sentiment and the rows it stores (SpecPredict).

\* What the caller receives: the result object with status 200 (the
\* forecast under symbol and source), or the error object with status 500.
Response(r) ==
    IF r.status = 200
    THEN [status |-> 200, symbol |-> r.symbol, prediction |-> r.pred.prediction,
          confidence |-> r.pred.confidence, riskLevel |-> r.pred.riskLevel,
          sentimentMomentum |-> r.pred.sentimentMomentum,
          source |-> IF r.pred.source \in {Missing, ""} THEN "algorithmic" ELSE r.pred.source]
    ELSE [status |-> r.status, error |-> "message"]

\* The same invocation, had its insert been accepted.
HadStored(r) == [r EXCEPT !.dbError = FALSE, !.inserted = 1]

\* C11: when the insert fails, predict still returns the forecast, and the
\* response differs from the one the caller would have received had the
\* record been stored.
C11_PersistenceErrorSurfaced ==
    \A p \in Procs :
        (run[p].kind = "predict-sentiment" /\ run[p].pc = "done" /\ run[p].dbError) =>
            /\ Response(run[p]).status = 200
            /\ Response(run[p]).prediction = run[p].pred.prediction
            /\ Response(run[p]) # Response(HadStored(run[p]))

\* C12: every stored row has its forecast fields in their domains
\* (confidence in ten-thousandths).
C12_FieldDomains ==
    \A i \in DOMAIN store :
        /\ store[i].prediction \in {"bullish", "bearish", "neutral"}
        /\ ~IsNull(store[i].confidence)
        /\ Val(store[i].confidence) >= 0 /\ Val(store[i].confidence) <= 10000
        /\ store[i].risk_level \in {"low", "medium", "high"}
        /\ store[i].sentiment_momentum \in {"accelerating", "decelerating", "stable"}
        /\ store[i].source \in {"algorithmic", "ai"}

----------------------------------------------------------------------------
\* Batch verification, one run after another: verify-predictions,
\* batch-verify and the operator's force-verify-script over a table that
\* holds rows of two symbols, with and without a created_at and with valid
\* and invalid prices (SpecBatch).

ScriptSite == "force-verify-script"

\* What fetchYahooPrice can hand to the script: null or a price.
ScriptQuotes == {None} \cup {Some(v) : v \in QuotePrices}

\* The script moves to its next row, or ends.
ScriptNext(r) ==
    IF Len(r.cur) <= 1
    THEN [r EXCEPT !.cur = <<>>, !.price = None, !.pc = "done"]
    ELSE [r EXCEPT !.cur = Tail(r.cur), !.price = None, !.pc = "fetch"]

\* verifyAllNow: every Pending row, whatever its age.
StartScript(p) ==
    /\ run[p].kind = "idle"
    /\ LET rows == SelectSeq(store, LAMBDA r : IsPending(r))
           base == [IdleRun EXCEPT !.kind = ScriptSite, !.seen = VerifiedIds(store),
                                   !.total = Len(rows)]
       IN run' = [run EXCEPT ![p] =
                    IF rows = <<>> THEN [base EXCEPT !.pc = "done"]
                    ELSE [base EXCEPT !.pc = "fetch", !.cur = rows]]
    /\ UNCHANGED <<store, now, orc>>

\* const currentPrice = await fetchYahooPrice(pred.symbol), for each row.
ScriptFetchPrice(p) ==
    /\ run[p].kind = ScriptSite
    /\ run[p].pc = "fetch"
    /\ LET r == [run[p] EXCEPT !.fetched = Append(@, Head(run[p].cur).symbol)]
       IN \E q \in ScriptQuotes :
            run' = [run EXCEPT ![p] =
                IF IsNull(q) THEN ScriptNext(r)
                ELSE [r EXCEPT !.price = q, !.pc = "pred"]]
    /\ UNCHANGED <<store, now, orc>>

\* The row is skipped when its price_at_prediction is null or 0, else it
\* is verified against the price just fetched and updated by id.
ScriptVerifyRow(p) ==
    /\ run[p].kind = ScriptSite
    /\ run[p].pc = "pred"
    /\ LET r == run[p]
           row == Head(r.cur)
       IN /\ IF ScriptInvalidPrice(row.price_at_prediction)
             THEN store' = store
             ELSE \E ok \in BOOLEAN :
                    store' = IF ok
                             THEN UpdateVerification(store, row.id,
                                       Verification(ScriptSite, row, Val(r.price), now))
                             ELSE store
          /\ run' = [run EXCEPT ![p] = ScriptNext(r)]
    /\ UNCHANGED <<now, orc>>

\* The rows of the table before the runs: Pending, of either symbol, old
\* enough for every age filter or without a created_at, and with a valid,
\* null, zero or negative price_at_prediction.
BatchSymbols == {"AAPL", "MSFT"}
BatchLengths == {1, 2}
StoredRow(id, sym, created, pap) ==
    [LegacyRow(id, sym, created) EXCEPT !.price_at_prediction = pap]
BatchStores ==
    UNION {{[i \in 1..n |-> StoredRow(i, f[i][1], f[i][2], f[i][3])] :
                f \in [1..n -> BatchSymbols \X {None, Some(-(2 * LegacyAge))} \X VerifyPaps]} :
           n \in BatchLengths}

InitBatch ==
    /\ store \in BatchStores
    /\ now = 0
    /\ run = [p \in Procs |-> IdleRun]
    /\ orc = OracleIdle

NextBatch ==
    \/ \E site \in {"verify-predictions", "batch-verify"}, force \in BOOLEAN :
            StartVerification(1, site, force)
    \/ FetchGroupPrice(1, AllQuotes)
    \/ RepairCreatedAt(1, UpdateOutcomes)
    \/ VerifyRow(1, UpdateOutcomes)
    \/ StartScript(1)
    \/ ScriptFetchPrice(1)
    \/ ScriptVerifyRow(1)
    \/ Return(1)

SpecBatch == InitBatch /\ [][NextBatch]_vars

----------------------------------------------------------------------------
\* Properties of the batch runs (SpecBatch).

BatchSites == {"verify-predictions", "batch-verify", ScriptSite}

\* C17: a row whose created_at a run has stamped is skipped for the rest of
\* that run: no later step of the run changes its verification columns.
C17_StampedThenSkipped ==
    [][\A p \in Procs : \A i \in run[p].repaired :
            ActsAs(p) => VerificationFields(store'[i]) = VerificationFields(store[i])]_vars

NoDuplicates(seq) == \A i, j \in DOMAIN seq : seq[i] = seq[j] => i = j

SymbolsAsked(r) == {r.fetched[k] : k \in DOMAIN r.fetched}

\* C18: within one batch run the price oracle is asked at most once for a
\* symbol, and a run that selected every Pending row has, at its end, asked
\* for the symbol of each of them.
C18_OneCallPerSymbol ==
    \A p \in Procs :
        run[p].kind \in BatchSites =>
            /\ NoDuplicates(run[p].fetched)
            /\ (run[p].pc = "done" /\ (run[p].force \/ run[p].kind = ScriptSite)) =>
                    \A i \in DOMAIN store \ run[p].seen : store[i].symbol \in SymbolsAsked(run[p])

\* The step of a grouping run in which the price oracle had no quote for
\* the group at the head of the list.
GroupNotFound(p) ==
    /\ run[p].kind \in {"verify-predictions", "batch-verify"}
    /\ run[p].pc = "fetch"
    /\ run'[p].kind = run[p].kind
    /\ run'[p].pc # "pred"

\* C19: when the oracle has no quote for a symbol group, no row changes and
\* errorCount grows by the size of the group.
C19_NotFoundCountsGroup ==
    [][\A p \in Procs :
          GroupNotFound(p) =>
             /\ store' = store
             /\ run'[p].errors = run[p].errors
                                   + Len(GroupOf(run[p].sel, Head(run[p].todo)))]_vars

\* The step of a batch run that handles a row whose price_at_prediction is
\* null, zero or negative.
HandlesInvalidPrice(p) ==
    /\ run[p].kind \in BatchSites
    /\ run[p].pc = "pred"
    /\ run[p].cur # <<>>
    /\ InvalidPrice(Head(run[p].cur).price_at_prediction)

\* C20: a batch run writes no column of a row whose price_at_prediction is
\* null, zero or negative, and handling such a row changes neither
\* verifiedCount nor errorCount.
C20_InvalidPriceSkipped ==
    [][\A p \in Procs :
          HandlesInvalidPrice(p) =>
             /\ store'[Head(run[p].cur).id] = store[Head(run[p].cur).id]
             /\ run'[p].verified = run[p].verified
             /\ run'[p].errors = run[p].errors]_vars

GroupingSites == {"verify-predictions", "batch-verify"}

\* The step of a grouping run in which the update of a row with a valid
\* price_at_prediction changed nothing: it returned an error or threw.
UpdateFailed(p) ==
    /\ run[p].kind \in GroupingSites
    /\ run[p].pc = "pred"
    /\ run[p].cur # <<>>
    /\ run'[p] # run[p]
    /\ \/ IsNull(Head(run[p].cur).created_at)
       \/ ~InvalidPrice(Head(run[p].cur).price_at_prediction)
    /\ store' = store

\* The step with which a grouping run reaches its response.
Responds(p) ==
    /\ run[p].kind \in GroupingSites
    /\ run[p].pc \in {"fetch", "pred"}
    /\ run'[p].pc = "done"

\* C21: a failure inside one symbol group (no quote, or an update that
\* fails or throws) is counted in errorCount, the run answers only after its
\* last group, and the answer is the success summary.
C21_FailureNeverAborts ==
    [][\A p \in Procs :
          /\ (GroupNotFound(p) \/ UpdateFailed(p)) => run'[p].errors > run[p].errors
          /\ Responds(p) => (Len(run[p].todo) <= 1 /\ run'[p].status = 200)]_vars

----------------------------------------------------------------------------
\* Properties of the deterministic scorers (SpecPredict).

\* predict-sentiment has scored avgSentiment = 0.2 and trend = 0.05 with the
\* deterministic scorer.
ScoredExample(p) ==
    /\ run[p].kind = "predict-sentiment"
    /\ run[p].pc = "insert"
    /\ run[p].path = "algorithmic"
    /\ run[p].agg.avgSentiment = 200
    /\ run[p].agg.trend = 50

\* C22 (as stated): for avgSentiment = 0.2 and trend = 0.05 the scorer
\* answers bullish with a confidence of at most 0.65, the weak-signal ceiling.
C22_WeakBandExample ==
    \A p \in Procs :
        ScoredExample(p) =>
            /\ run[p].pred.prediction = "bullish"
            /\ Val(run[p].pred.confidence) <= 6500

\* C22 (amended): for avgSentiment = 0.2 and trend = 0.05 the scorer answers
\* bullish from the strong-signal band (avgSentiment > 0.15, trend >= 0):
\* confidence min(0.85, 0.5 + 0.2 + 0.025) rounded to 0.73, above the 0.65
\* ceiling of the weak-signal band and below the 0.85 ceiling of its own.
C22_StrongBandExample ==
    \A p \in Procs :
        ScoredExample(p) =>
            /\ run[p].pred.prediction = "bullish"
            /\ Val(run[p].pred.confidence) = 7300
            /\ Val(run[p].pred.confidence) <= 8500

C22_ExampleScored == \E p \in Procs : ScoredExample(p) /\ run[p].pred.source = "algorithmic"

----------------------------------------------------------------------------
\* auto-update's scorer as a function of what serve passes to it
\* (SpecScore): the average sentiment in thousandths and the quote's percent
\* change in hundredths of a percent.

ScoreSentiments == {-1000, -700, -200, 0, 200, 700, 790, 1000}
ScoreChanges == {-1000, -300, -100, 0, 100, 260, 300, 1000}

InitScore ==
    /\ store = <<>>
    /\ now = 0
    /\ run = [p \in Procs |-> IdleRun]
    /\ \E a \in ScoreSentiments, c \in ScoreChanges :
          orc = [fn |-> "generatePrediction", pc |-> "called",
                 avgSentiment |-> a, change |-> c, result |-> NoPrediction]

\* const trend = livePrice.change / 100; const priceChange = livePrice.change;
\* generatePrediction(symbol, avgSentiment, trend, priceChange)
ScoreReturn ==
    /\ orc.pc = "called"
    /\ orc' = [orc EXCEPT !.pc = "returned",
                          !.result = generatePrediction(orc.avgSentiment, orc.change)]
    /\ UNCHANGED <<store, now, run>>

NextScore == ScoreReturn

SpecScore == InitScore /\ [][NextScore]_vars

\* avgSentiment + 0.5*trend + 0.3*(priceChangePercent/100) in
\* hundred-thousandths, with trend = priceChangePercent/100.
DocumentedScore == 100 * orc.avgSentiment + 5 * orc.change + 3 * orc.change

\* C23: the lightweight scorer answers bullish iff the documented combined
\* score exceeds 0.8 and bearish iff it is below -0.8; with no sentiment a
\* price change of 3 percent yields neutral.
C23_LightweightScore ==
    orc.pc = "returned" =>
        /\ orc.result.prediction = "bullish" <=> DocumentedScore > 80000
        /\ orc.result.prediction = "bearish" <=> DocumentedScore < -80000
        /\ (orc.avgSentiment = 0 /\ orc.change = 300) => orc.result.prediction = "neutral"

----------------------------------------------------------------------------
\* The sentiment trend of predict-sentiment as a function of the articles of
\* the last 30 days (SpecTrend).  An article is its sub-window (published in
\* the last 7 days, in days 8 to 14, or earlier) and its compound score in
\* thousandths.

MaxArticles == 3
TrendWindows == {"recent", "older", "earlier"}
CompoundScores == {-600, 0, 600}
ArticleLists ==
    UNION {[1..n -> [window : TrendWindows, sentiment_compound : CompoundScores]] :
              n \in 0..MaxArticles}

RECURSIVE SumCompound(_)
SumCompound(articles) ==
    IF articles = <<>> THEN 0
    ELSE Head(articles).sentiment_compound + SumCompound(Tail(articles))

\* list.length > 0 ? list.reduce(...) / list.length : 0
MeanCompound(articles) ==
    IF Len(articles) > 0 THEN SumCompound(articles) \div Len(articles) ELSE 0

recentArticles(articles) == SelectSeq(articles, LAMBDA a : a.window = "recent")
olderArticles(articles) == SelectSeq(articles, LAMBDA a : a.window = "older")

\* const trend = recentAvg - olderAvg
SentimentTrend(articles) ==
    MeanCompound(recentArticles(articles)) - MeanCompound(olderArticles(articles))

InitTrend ==
    /\ store = <<>>
    /\ now = 0
    /\ run = [p \in Procs |-> IdleRun]
    /\ \E articles \in ArticleLists :
          orc = [fn |-> "trend", pc |-> "called", articles |-> articles, result |-> 0]

TrendReturn ==
    /\ orc.pc = "called"
    /\ orc' = [orc EXCEPT !.pc = "returned", !.result = SentimentTrend(orc.articles)]
    /\ UNCHANGED <<store, now, run>>

NextTrend == TrendReturn

SpecTrend == InitTrend /\ [][NextTrend]_vars

\* C24: the trend is recentMean - olderMean when both sub-windows hold
\* articles, and 0 when either of them is empty.
C24_TrendZeroWhenWindowEmpty ==
    orc.pc = "returned" =>
        LET recent == recentArticles(orc.articles)
            older == olderArticles(orc.articles)
        IN IF recent # <<>> /\ older # <<>>
           THEN orc.result = MeanCompound(recent) - MeanCompound(older)
           ELSE orc.result = 0

----------------------------------------------------------------------------
\* Further properties of the verification arithmetic (SpecVerify).

CallSites == VerifySites \cup {ScriptSite}

\* C25: for the same prediction, price_at_prediction and current price every
\* call site computes the actual_outcome and the was_accurate that the
\* called one returned.
C25_SitesAgree ==
    Verified =>
        \A site \in CallSites :
            /\ ActualOutcome(site, orc.cur, Val(orc.pap)) = Outcome
            /\ WasAccurate(site, orc.prediction, orc.cur, Val(orc.pap)) = Accurate

----------------------------------------------------------------------------
\* Further properties of the batch runs (SpecBatch).

NullFields(r) == {f \in 1..5 : IsNull(VerificationFields(r)[f])}

\* C26: every stored row has all five verification columns null or all five
\* set, so the rows with was_accurate null are the rows with no
\* verification column set.
C26_AllOrNothing ==
    \A i \in DOMAIN store :
        /\ NullFields(store[i]) \in {{}, 1..5}
        /\ IsPending(store[i]) <=> NullFields(store[i]) = 1..5

----------------------------------------------------------------------------
\* The direction of the move behind an accurate directional prediction
\* (SpecVerify), for the five call sites and debug-verification.js.

DebugSite == "debug-verification"
AccuracySites == CallSites \cup {DebugSite}

\* The scripts skip a null or zero price_at_prediction only, the edge
\* functions a negative one as well.
SkipsRow(site, pap) ==
    IF site \in {ScriptSite, DebugSite} THEN ScriptInvalidPrice(pap) ELSE InvalidPrice(pap)

\* C27: wherever a call site verifies the row, a bullish prediction is
\* accurate only if the price change is above 0 and a bearish one only if it
\* is below 0.
C27_AccurateMovedAsPredicted ==
    /\ orc.pc = "returned" =>
            \A site \in AccuracySites :
                (~SkipsRow(site, orc.pap)
                    /\ WasAccurate(site, orc.prediction, orc.cur, Val(orc.pap))) =>
                    /\ orc.prediction = "bullish" => ChangeGT(orc.cur, Val(orc.pap), 0)
                    /\ orc.prediction = "bearish" => ChangeLT(orc.cur, Val(orc.pap), 0)
    /\ (Verified /\ Accurate) =>
            /\ orc.prediction = "bullish" => Val(Val(orc.result).price_change_percent) > 0
            /\ orc.prediction = "bearish" => Val(Val(orc.result).price_change_percent) < 0

\* C27 witness: a bullish prediction was marked accurate by the leniency
\* alone, the realized outcome being neutral.
C27_LenientBullish ==
    /\ Verified
    /\ orc.prediction = "bullish"
    /\ Accurate
    /\ Outcome = "neutral"

----------------------------------------------------------------------------
\* The counters of a grouping run (SpecBatch).

\* The step wrote the verification columns of some row.
WritesVerification ==
    \E i \in DOMAIN store : VerificationFields(store'[i]) # VerificationFields(store[i])

\* C28: the verified count grows exactly with the rows whose verification
\* columns the run wrote, also when an update returns an error, and verified
\* plus errors never exceeds the number of selected rows.
C28_VerifiedCountsWrites ==
    [][\A p \in Procs :
          (run[p].kind \in GroupingSites /\ run'[p].kind = run[p].kind) =>
             /\ run'[p].verified = run[p].verified + 1 <=> WritesVerification
             /\ run'[p].verified + run'[p].errors <= run'[p].total]_vars

----------------------------------------------------------------------------
\* Verification runs repeated for ever, with the quote always available and
\* every update applied (SpecLive).  The table holds one old row with a
\* valid price_at_prediction and, newer than it, a backlog of rows stored
\* without a price.

MaxBacklog == 100
Backlogs == {1, MaxBacklog}

\* Row 1 is the valid one; the single row of the short backlog has no
\* created_at, the rows of the long one are old enough for every age filter.
LiveStore(n) ==
    [i \in 1..(n + 1) |->
        IF i = 1 THEN StoredRow(1, "AAPL", Some(-(3 * LegacyAge)), Some(1000))
        ELSE StoredRow(i, "AAPL", IF n = 1 THEN None ELSE Some(-(2 * LegacyAge)), None)]

AvailableQuotes == [site \in VerifySites |-> {q \in LiveQuotes[site] : ~IsNull(q.price)}]

InitLive ==
    /\ store \in {LiveStore(n) : n \in Backlogs}
    /\ now = 0
    /\ run = [p \in Procs |-> IdleRun]
    /\ orc = OracleIdle

NextLive ==
    \/ \E site \in GroupingSites, force \in BOOLEAN : StartVerification(1, site, force)
    \/ FetchGroupPrice(1, AvailableQuotes)
    \/ RepairCreatedAt(1, {"ok"})
    \/ VerifyRow(1, {"ok"})
    \/ Return(1)

\* A run that has started goes on to its response, and a new run follows.
SpecLive == InitLive /\ [][NextLive]_vars /\ WF_vars(NextLive)

ValidPending(r) == IsPending(r) /\ ~InvalidPrice(r.price_at_prediction)

\* C29: under repeated runs with the quote available, every Pending row
\* with a positive price_at_prediction is eventually Verified.
C29_ValidEventuallyVerified ==
    (\E i \in DOMAIN store : ValidPending(store[i]))
        ~> (\A i \in DOMAIN store : ~ValidPending(store[i]))

----------------------------------------------------------------------------
\* The in-memory rate limiter of fetch-stock-price (SpecRate).  now is
\* Date.now() in milliseconds; orc holds rateLimitMap, the outcome of the
\* last request and, as a history variable, the number of requests of each
\* client admitted since its current window began.

RATE_LIMIT == 50
RATE_WINDOW == 60000

MaxClock == 120000
ClockSteps == {30000}
Clients == {"10.0.0.1", "10.0.0.2"}

\* if (entry.count > RATE_LIMIT): the limit tested one request too late.
LimitReachedExclusive(entry) == entry.count > RATE_LIMIT

\* if (entry.count >= RATE_LIMIT) return true;
LimitReached(entry) == entry.count >= RATE_LIMIT

\* if (!entry || now > entry.resetTime)
WindowOver(entry, t) == IsNull(entry) \/ t > Val(entry).resetTime

\* isRateLimited(identifier) at time t: the map afterwards and the result.
isRateLimited(rateLimitMap, identifier, t) ==
    LET entry == rateLimitMap[identifier]
    IN IF WindowOver(entry, t)
       THEN [map |-> [rateLimitMap EXCEPT
                        ![identifier] = Some([count |-> 1, resetTime |-> t + RATE_WINDOW])],
             limited |-> FALSE]
       ELSE IF LimitReached(Val(entry))
       THEN [map |-> rateLimitMap, limited |-> TRUE]
       ELSE [map |-> [rateLimitMap EXCEPT
                        ![identifier] = Some([Val(entry) EXCEPT !.count = @ + 1])],
             limited |-> FALSE]

InitRate ==
    /\ store = <<>>
    /\ now = 0
    /\ run = [p \in Procs |-> IdleRun]
    /\ orc = [fn |-> "isRateLimited", pc |-> "idle",
              map |-> [c \in Clients |-> None],
              admitted |-> [c \in Clients |-> 0],
              last |-> [client |-> "", limited |-> FALSE]]

\* serve: a request of a client arrives; 429 when it is rate limited.
RateRequest(c) ==
    /\ LET res == isRateLimited(orc.map, c, now)
       IN orc' = [orc EXCEPT
                    !.map = res.map,
                    !.admitted[c] = IF res.limited THEN @
                                    ELSE IF WindowOver(orc.map[c], now) THEN 1
                                    ELSE @ + 1,
                    !.last = [client |-> c, limited |-> res.limited]]
    /\ UNCHANGED <<store, now, run>>

\* Date.now() advances.
RateTick ==
    /\ \E d \in ClockSteps :
         /\ now + d <= MaxClock
         /\ now' = now + d
    /\ UNCHANGED <<store, run, orc>>

NextRate ==
    \/ \E c \in Clients : RateRequest(c)
    \/ RateTick

SpecRate == InitRate /\ [][NextRate]_vars

\* The step is a request of client c.
RequestOf(c) == now' = now /\ orc' # orc /\ orc'.last.client = c

\* C30: per client, at most RATE_LIMIT requests are admitted in a window and
\* the stored count never exceeds RATE_LIMIT; a rejected request leaves the
\* entry as it is; the first request after resetTime is admitted and starts
\* a new window with count 1.
C30_RateLimiter ==
    [][\A c \in Clients :
          /\ orc'.admitted[c] <= RATE_LIMIT
          /\ ~IsNull(orc'.map[c]) =>
                /\ Val(orc'.map[c]).count <= RATE_LIMIT
                /\ Val(orc'.map[c]).count = orc'.admitted[c]
          /\ (RequestOf(c) /\ orc'.last.limited) => orc'.map[c] = orc.map[c]
          /\ (RequestOf(c) /\ ~IsNull(orc.map[c]) /\ now > Val(orc.map[c]).resetTime) =>
                /\ ~orc'.last.limited
                /\ orc'.map[c] = Some([count |-> 1, resetTime |-> now + RATE_WINDOW])]_vars

\* C30 witness: a request has been rejected because its client had used up
\* the RATE_LIMIT requests of its window, a window that began after the
\* clock had advanced, and the other client has an entry of its own.
C30_RejectedAtLimit ==
    \E c, d \in Clients :
        /\ orc.fn = "isRateLimited"
        /\ orc.last = [client |-> c, limited |-> TRUE]
        /\ Val(orc.map[c]).count = RATE_LIMIT
        /\ Val(orc.map[c]).resetTime > RATE_WINDOW
        /\ d # c
        /\ ~IsNull(orc.map[d])

====
